---- MODULE Spec2Model ----
(***************************************************************************)
(* Branching strategies, strong-branching deltas and random binary         *)
(* starting points of the QUBO branch-and-bound solver                     *)
(* (src/src/branchbound_utils.rs, src/src/initial_points.rs).              *)
(*                                                                         *)
(* Numbers.  The f64 values of the source are modelled exactly, as         *)
(* integers in fixed-point units:                                          *)
(*   - solution[i], the values of fixed_variables, sparsity and a          *)
(*     gen_f64() draw are counted in units of 1/Scale (Scale = 2: the      *)
(*     value 0.5 of the source is 1 unit, 1.0 is Scale units);             *)
(*   - a violation |solution[i] - 0.5| is counted in units of              *)
(*     1/(2*Scale), so that it is the integer |2*solution[i] - Scale|;     *)
(*   - the entries of q and c are integers;                                *)
(*   - a strong-branching result is counted in units of 1/(2*Scale^2),     *)
(*     which turns 0.5 * d * (d*q_jj + x_q + q_x + 2.0*c) into the         *)
(*     integer D * (D*q_jj + X_Q + Q_X + 2*Scale*c).                       *)
(* On these dyadic values f64 arithmetic is exact, so the integer model    *)
(* computes what the code computes.                                        *)
(*                                                                         *)
(* Generators.  The PRNG is an external crate.  random() builds a fresh    *)
(* generator from seed + nodes_visited and draws once: prng_draw is that   *)
(* draw, any value, fixed with the solver's seed and counter.  The         *)
(* caller's generator of generate_random_binary_point is the sequence of   *)
(* gen_f64() values it yields, each in [0, 1), and a position in it.       *)
(***************************************************************************)
EXTENDS Integers, Sequences, FiniteSets

\* ------------------------------------------------------------------ bounds

\* fixed-point denominator: 0.5 (branchbound_utils.rs:52) is Scale \div 2 units
Scale == 2

\* largest dimension num_x of a specification that enumerates q and c
MaxN == 2

\* largest dimension num_x of the specification of the scanning strategies
MaxScanN == 3

\* largest value of the first gen_u64() draw
MaxDraw == 5

\* largest dimension n of a random binary point
MaxPointN == 3

\* number of gen_f64() draws left in the generator's stream
MaxStream == 4

\* largest num_points of a batch of random binary points
MaxPoints == 2

\* the entries of q and of c
QVals == {-1, 0, 1}

CVals == {-1, 0, 1}

\* the values of lower_bound
BoundVals == {-1, 0}

\* ------------------------------------------------------------------- state

VARIABLES
    num_x,            \* solver.qubo.num_x()
    q,                \* solver.qubo.q, q[i][j], i, j in 0..num_x-1
    c,                \* solver.qubo.c
    lower_bound,      \* node.lower_bound
    solution,         \* node.solution
    fixed_variables,  \* node.fixed_variables: index -> 0 or Scale
    prng_draw,        \* JsfLarge::from(seed + nodes_visited): its first gen_u64()
    prng_stream,      \* the gen_f64() values the caller's PRNG yields, in order
    prng_pos,         \* how many of them the caller's PRNG has yielded so far
    sparsity,         \* argument of generate_random_binary_point
    called,           \* the function called last
    outcome,          \* "none", "returned" or "panicked"
    ret_index,        \* the usize a branching strategy returned
    ret_zero,         \* compute_strong_branch: zero_result
    ret_one,          \* compute_strong_branch: one_result
    ret_points        \* the binary points returned, a sequence of arrays

vars == <<num_x, q, c, lower_bound, solution, fixed_variables, prng_draw,
          prng_stream, prng_pos, sparsity, called, outcome, ret_index,
          ret_zero, ret_one, ret_points>>

\* struct QuboBBNode, passed by reference to every strategy
QuboBBNode == [lower_bound |-> lower_bound, solution |-> solution,
               fixed_variables |-> fixed_variables]

\* ------------------------------------------------------------ f64 helpers

\* f64::abs
Abs(a) == IF a < 0 THEN -a ELSE a

\* f64::min
Min(a, b) == IF a <= b THEN a ELSE b

\* f64::max
Max(a, b) == IF a >= b THEN a ELSE b

\* a finite f64 as a value of the tracking variables of the approximations
Finite(v) == [inf |-> 0, val |-> v]

\* f64::NEG_INFINITY
NEG_INFINITY == [inf |-> -1, val |-> 0]

\* f64::INFINITY
INFINITY == [inf |-> 1, val |-> 0]

\* a > b on f64 values that may be infinite
F64Gt(a, b) == \/ a.inf > b.inf
               \/ a.inf = 0 /\ b.inf = 0 /\ a.val > b.val

\* a <= b on f64 values that may be infinite (no NaN arises from finite input)
F64Le(a, b) == ~F64Gt(a, b)

\* what a strategy does: return a usize, or panic
Return(i) == [panic |-> FALSE, index |-> i]

Panic == [panic |-> TRUE, index |-> 0]

\* ---------------------------------------------------------- first_not_fixed

RECURSIVE ScanNotFixed(_, _, _)
\* for i in lo..hi { if !node.fixed_variables.contains_key(&i) { return i; } }
\* Falling out of the loop yields Panic, for the caller to continue from.
ScanNotFixed(lo, hi, node) ==
    IF lo >= hi THEN Panic
    ELSE IF lo \notin DOMAIN node.fixed_variables THEN Return(lo)
    ELSE ScanNotFixed(lo + 1, hi, node)

\* faulty variant: the scan starts at index 1
first_not_fixed_from_one(n, node) == ScanNotFixed(1, n, node)

\* the loop over 0..num_x, then panic!("No variable to branch on")
first_not_fixed(n, node) == ScanNotFixed(0, n, node)

\* ------------------------------------------------------------ most_violated

\* faulty variant: strict comparison
MostViolatedReplacesStrict(violation, most) == violation < most

\* if violation <= most_violated
MostViolatedReplaces(violation, most) == violation <= most

RECURSIVE MostViolatedLoop(_, _, _, _, _)
\* the body of for i in 0..num_x, carrying the two tracking variables
MostViolatedLoop(i, n, node, most, index_most_violated) ==
    IF i >= n THEN Return(index_most_violated)
    ELSE IF i \notin DOMAIN node.fixed_variables
         THEN LET violation == Abs(2 * node.solution[i] - Scale)
              IN  IF MostViolatedReplaces(violation, most)
                  THEN MostViolatedLoop(i + 1, n, node, violation, i)
                  ELSE MostViolatedLoop(i + 1, n, node, most, index_most_violated)
         ELSE MostViolatedLoop(i + 1, n, node, most, index_most_violated)

\* faulty variant: the threshold starts at 0.0
most_violated_from_zero(n, node) == MostViolatedLoop(0, n, node, 0, 0)

\* let mut most_violated = 1.0 (2*Scale units); let mut index_most_violated = 0;
\* the function ends by returning index_most_violated: it has no panic
most_violated(n, node) == MostViolatedLoop(0, n, node, 2 * Scale, 0)

\* ------------------------------------------------------------------- random

\* faulty variant: the scan does not wrap around to 0..index
random_no_wrap(n, draw, node) == ScanNotFixed(draw % n, n, node)

\* draw is prng.gen_u64() of the generator seeded with seed + nodes_visited
random(n, draw, node) ==
    LET index == draw % n
        first == ScanNotFixed(index, n, node)
    IN  IF ~first.panic THEN first
        ELSE ScanNotFixed(0, index, node)

\* ---------------------------------------------------- compute_strong_branch

RECURSIVE SumTo(_, _)
\* f[0] + ... + f[n-1]
SumTo(f, n) == IF n = 0 THEN 0 ELSE f[n - 1] + SumTo(f, n - 1)

\* &solver.qubo.q * &v
MatVec(qm, v, n) ==
    [i \in 0..(n - 1) |-> SumTo([j \in 0..(n - 1) |-> qm[i][j] * v[j]], n)]

\* &solver.qubo.q.transpose_view() * &v
TransposeMatVec(qm, v, n) ==
    [i \in 0..(n - 1) |-> SumTo([j \in 0..(n - 1) |-> qm[j][i] * v[j]], n)]

\* solver.qubo.q.diag().to_dense()
Diag(qm, n) == [i \in 0..(n - 1) |-> qm[i][i]]

\* the first loop: the current vector, fixed values over solution values
BaseSolution(n, node) ==
    [i \in 0..(n - 1) |->
        IF i \in DOMAIN node.fixed_variables
        THEN node.fixed_variables[i]
        ELSE node.solution[i]]

\* faulty variant: the linear term is not doubled inside the halved bracket
FlipResultSingleC(delta, q_jj, x_q, q_x, c_i) ==
    delta * (delta * q_jj + x_q + q_x + Scale * c_i)

\* faulty variant: the second-order term delta * q_jj is left out
FlipResultNoDiag(delta, q_jj, x_q, q_x, c_i) ==
    delta * (x_q + q_x + 2 * Scale * c_i)

\* 0.5 * delta * (delta * q_jj + x_q + q_x + 2.0 * c), in units of 1/(2*Scale^2)
FlipResult(delta, q_jj, x_q, q_x, c_i) ==
    delta * (delta * q_jj + x_q + q_x + 2 * Scale * c_i)

compute_strong_branch(n, qm, cv, node) ==
    LET base_solution == BaseSolution(n, node)
        delta_zero == [i \in 0..(n - 1) |-> -base_solution[i]]
        delta_one  == [i \in 0..(n - 1) |-> Scale - base_solution[i]]
        q_jj == Diag(qm, n)
        q_x  == MatVec(qm, base_solution, n)
        x_q  == TransposeMatVec(qm, base_solution, n)
    IN  [zero_result |->
            [i \in 0..(n - 1) |->
                FlipResult(delta_zero[i], q_jj[i], x_q[i], q_x[i], cv[i])],
         one_result |->
            [i \in 0..(n - 1) |->
                FlipResult(delta_one[i], q_jj[i], x_q[i], q_x[i], cv[i])]]

\* ------------------------------------------------------ worst_approximation

\* faulty variant: non-strict comparison
WorstReplacesGe(min_obj_gain, worst) == ~F64Gt(worst, Finite(min_obj_gain))

\* if min_obj_gain > worst_approximation
WorstReplaces(min_obj_gain, worst) == F64Gt(Finite(min_obj_gain), worst)

RECURSIVE WorstApproximationLoop(_, _, _, _, _, _)
WorstApproximationLoop(i, n, node, flips, worst, index_worst_approximation) ==
    IF i >= n THEN Return(index_worst_approximation)
    ELSE IF i \in DOMAIN node.fixed_variables
         THEN WorstApproximationLoop(i + 1, n, node, flips, worst,
                                     index_worst_approximation)
         ELSE LET min_obj_gain == Min(flips.zero_result[i], flips.one_result[i])
              IN  IF WorstReplaces(min_obj_gain, worst)
                  THEN WorstApproximationLoop(i + 1, n, node, flips,
                                              Finite(min_obj_gain), i)
                  ELSE WorstApproximationLoop(i + 1, n, node, flips, worst,
                                              index_worst_approximation)

\* tracking variables NEG_INFINITY and 0; returns index_worst_approximation
worst_approximation(n, qm, cv, node) ==
    WorstApproximationLoop(0, n, node, compute_strong_branch(n, qm, cv, node),
                           NEG_INFINITY, 0)

\* ------------------------------------------------------- best_approximation

\* faulty variant: strict comparison
BestReplacesStrict(max_obj_gain, worst) ==
    F64Gt(worst, Finite(max_obj_gain))

\* if max_obj_gain <= worst_approximation
BestReplaces(max_obj_gain, worst) == F64Le(Finite(max_obj_gain), worst)

RECURSIVE BestApproximationLoop(_, _, _, _, _, _)
BestApproximationLoop(i, n, node, flips, worst, index_best_approximation) ==
    IF i >= n THEN Return(index_best_approximation)
    ELSE IF i \in DOMAIN node.fixed_variables
         THEN BestApproximationLoop(i + 1, n, node, flips, worst,
                                    index_best_approximation)
         ELSE LET max_obj_gain == Max(flips.zero_result[i], flips.one_result[i])
              IN  IF BestReplaces(max_obj_gain, worst)
                  THEN BestApproximationLoop(i + 1, n, node, flips,
                                             Finite(max_obj_gain), i)
                  ELSE BestApproximationLoop(i + 1, n, node, flips, worst,
                                             index_best_approximation)

\* tracking variables INFINITY and 0; returns index_best_approximation
best_approximation(n, qm, cv, node) ==
    BestApproximationLoop(0, n, node, compute_strong_branch(n, qm, cv, node),
                          INFINITY, 0)

\* --------------------------------------------- generate_random_binary_point

\* faulty variant: non-strict comparison
DrawSetsOneLe(draw, sp) == draw <= sp

\* if prng.gen_f64() < sparsity
DrawSetsOne(draw, sp) == draw < sp

\* x starts zeroed; entry i is set to 1 when the i-th draw passes the test;
\* the draws are stream[pos + 1], stream[pos + 2], ..., one per entry, in
\* index order, and the generator is left n draws further
generate_random_binary_point(n, stream, pos, sp) ==
    [x |-> [i \in 0..(n - 1) |->
               IF DrawSetsOne(stream[pos + i + 1], sp) THEN 1 ELSE 0],
     pos |-> pos + n]

RECURSIVE generate_random_binary_points(_, _, _, _)
\* (0..num_points).map(|_| generate_random_binary_point(n, prng, 0.5)).collect()
generate_random_binary_points(n, num_points, stream, pos) ==
    IF num_points = 0 THEN [points |-> <<>>, pos |-> pos]
    ELSE LET one  == generate_random_binary_point(n, stream, pos, Scale \div 2)
             rest == generate_random_binary_points(n, num_points - 1, stream,
                                                   one.pos)
         IN  [points |-> <<one.x>> \o rest.points, pos |-> rest.pos]

\* ------------------------------------------------------------ initial states

Indices(n) == 0..(n - 1)

\* the nodes' fixed_variables: any set of indices, each fixed to 0.0 or 1.0
FixedMaps(n) == UNION {[D -> {0, Scale}] : D \in SUBSET Indices(n)}

\* the relaxation's solutions: every entry in [0, 1]
Solutions(n) == [Indices(n) -> 0..Scale]

Matrices(n) == [Indices(n) -> [Indices(n) -> QVals]]

\* "Currently requires the QUBO to be symmetrical"
SymmetricMatrices(n) ==
    {m \in Matrices(n) : \A i, j \in Indices(n) : m[i][j] = m[j][i]}

ZeroMatrix(n) == [i \in Indices(n) |-> [j \in Indices(n) |-> 0]]

ZeroVector(n) == [i \in Indices(n) |-> 0]

\* nothing has been called
NoCall ==
    /\ called = "none"
    /\ outcome = "none"
    /\ ret_index = 0
    /\ ret_zero = <<>>
    /\ ret_one = <<>>
    /\ ret_points = <<>>

\* no starting point is asked for
NoPoint ==
    /\ prng_stream = <<>>
    /\ prng_pos = 0
    /\ sparsity = 0

\* a solver and a node for the five strategies: a symmetric q
Init ==
    /\ num_x \in 1..MaxN
    /\ q \in SymmetricMatrices(num_x)
    /\ c \in [Indices(num_x) -> CVals]
    /\ lower_bound = 0
    /\ solution \in Solutions(num_x)
    /\ fixed_variables \in FixedMaps(num_x)
    /\ prng_draw \in 0..Min(MaxDraw, num_x)
    /\ NoPoint
    /\ NoCall

\* a solver and a node for the strategies that read neither q nor c
InitScan ==
    /\ num_x \in 1..MaxScanN
    /\ q = ZeroMatrix(num_x)
    /\ c = ZeroVector(num_x)
    /\ lower_bound \in BoundVals
    /\ solution \in Solutions(num_x)
    /\ fixed_variables \in FixedMaps(num_x)
    /\ prng_draw \in 0..MaxDraw
    /\ NoPoint
    /\ NoCall

\* a solver and a node for compute_strong_branch: any q
InitStrong ==
    /\ num_x \in 1..MaxN
    /\ q \in Matrices(num_x)
    /\ c \in [Indices(num_x) -> CVals]
    /\ lower_bound = 0
    /\ solution \in Solutions(num_x)
    /\ fixed_variables \in FixedMaps(num_x)
    /\ prng_draw = 0
    /\ NoPoint
    /\ NoCall

\* a dimension, a generator and a sparsity for the starting points
InitPoint ==
    /\ num_x \in 0..MaxPointN
    /\ q = ZeroMatrix(num_x)
    /\ c = ZeroVector(num_x)
    /\ lower_bound = 0
    /\ solution = ZeroVector(num_x)
    /\ fixed_variables = <<>>
    /\ prng_draw = 0
    /\ prng_stream \in [1..MaxStream -> 0..(Scale - 1)]
    /\ prng_pos = 0
    /\ sparsity \in 0..Scale
    /\ NoCall

\* ------------------------------------------------------------------ actions

Inputs == <<num_x, q, c, lower_bound, solution, fixed_variables, prng_draw,
            prng_stream, sparsity>>

\* a strategy returned r.index, or panicked
Branched(name, r) ==
    /\ called' = name
    /\ outcome' = IF r.panic THEN "panicked" ELSE "returned"
    /\ ret_index' = r.index
    /\ ret_zero' = <<>>
    /\ ret_one' = <<>>
    /\ ret_points' = <<>>
    /\ UNCHANGED <<Inputs, prng_pos>>

\* BranchStrategy::FirstNotFixed (a panic ends the process: nothing follows it)
FirstNotFixed ==
    /\ outcome # "panicked"
    /\ Branched("first_not_fixed", first_not_fixed(num_x, QuboBBNode))

\* BranchStrategy::MostViolated
MostViolated ==
    /\ outcome # "panicked"
    /\ Branched("most_violated", most_violated(num_x, QuboBBNode))

\* BranchStrategy::Random
Random ==
    /\ outcome # "panicked"
    /\ Branched("random", random(num_x, prng_draw, QuboBBNode))

\* BranchStrategy::WorstApproximation
WorstApproximation ==
    /\ outcome # "panicked"
    /\ Branched("worst_approximation",
                worst_approximation(num_x, q, c, QuboBBNode))

\* BranchStrategy::BestApproximation
BestApproximation ==
    /\ outcome # "panicked"
    /\ Branched("best_approximation",
                best_approximation(num_x, q, c, QuboBBNode))

ComputeStrongBranch ==
    LET r == compute_strong_branch(num_x, q, c, QuboBBNode)
    IN  /\ outcome # "panicked"
        /\ called' = "compute_strong_branch"
        /\ outcome' = "returned"
        /\ ret_index' = 0
        /\ ret_zero' = r.zero_result
        /\ ret_one' = r.one_result
        /\ ret_points' = <<>>
        /\ UNCHANGED <<Inputs, prng_pos>>

\* the generator's stream is modelled to MaxStream draws: a call that needs
\* more is not taken
GenerateRandomBinaryPoint ==
    LET r == generate_random_binary_point(num_x, prng_stream, prng_pos, sparsity)
    IN  /\ prng_pos + num_x <= Len(prng_stream)
        /\ called' = "generate_random_binary_point"
        /\ outcome' = "returned"
        /\ ret_points' = <<r.x>>
        /\ prng_pos' = r.pos
        /\ UNCHANGED <<Inputs, ret_index, ret_zero, ret_one>>

GenerateRandomBinaryPoints ==
    \E num_points \in 0..MaxPoints :
        LET r == generate_random_binary_points(num_x, num_points, prng_stream,
                                               prng_pos)
        IN  /\ prng_pos + num_points * num_x <= Len(prng_stream)
            /\ called' = "generate_random_binary_points"
            /\ outcome' = "returned"
            /\ ret_points' = r.points
            /\ prng_pos' = r.pos
            /\ UNCHANGED <<Inputs, ret_index, ret_zero, ret_one>>

\* ----------------------------------------------------------- specifications

Next ==
    \/ FirstNotFixed
    \/ MostViolated
    \/ Random
    \/ WorstApproximation
    \/ BestApproximation

Spec == Init /\ [][Next]_vars

NextScan ==
    \/ FirstNotFixed
    \/ MostViolated
    \/ Random

SpecScan == InitScan /\ [][NextScan]_vars

NextStrong == ComputeStrongBranch

SpecStrong == InitStrong /\ [][NextStrong]_vars

NextPoint ==
    \/ GenerateRandomBinaryPoint
    \/ GenerateRandomBinaryPoints

SpecPoint == InitPoint /\ [][NextPoint]_vars

\* ------------------------------------------------------------------ claims

Strategies == {"first_not_fixed", "most_violated", "random",
               "worst_approximation", "best_approximation"}

IsFixed(i) == i \in DOMAIN fixed_variables

Unfixed == {i \in Indices(num_x) : ~IsFixed(i)}

\* |solution[i] - 0.5|, in units of 1/(2*Scale)
Violation(i) == Abs(2 * solution[i] - Scale)

C2_ExhaustedPanics ==
    (called \in Strategies /\ Unfixed = {}) => outcome = "panicked"

\* C3: first_not_fixed returns the smallest unfixed index: the index returned
\* is unfixed and every index below it is fixed, whatever solution and
\* lower_bound are.
C3_FirstNotFixedSmallest ==
    (called = "first_not_fixed" /\ Unfixed # {})
        => /\ outcome = "returned"
           /\ ret_index \in Unfixed
           /\ \A j \in Indices(num_x) : j < ret_index => IsFixed(j)

\* C3, its case: first_not_fixed skips the fixed indices 0 and 1 and returns 2.
C3_Witness ==
    /\ called = "first_not_fixed"
    /\ outcome = "returned"
    /\ IsFixed(0)
    /\ IsFixed(1)
    /\ ret_index = 2

\* C4: most_violated, on a node with an unfixed index (solution entries in
\* [0, 1]), returns an unfixed index of minimal |solution[i] - 0.5| among the
\* unfixed ones, and of those of minimal violation the largest.
C4_MostViolatedLastMinimum ==
    (called = "most_violated" /\ Unfixed # {})
        => /\ outcome = "returned"
           /\ ret_index \in Unfixed
           /\ \A j \in Unfixed : Violation(ret_index) <= Violation(j)
           /\ \A j \in Unfixed :
                 Violation(j) = Violation(ret_index) => j <= ret_index

\* C4, its case: two unfixed indices tie on the minimum, the later one is
\* returned, and a fixed index of smaller violation is passed over.
C4_Witness ==
    /\ called = "most_violated"
    /\ outcome = "returned"
    /\ \E j \in Unfixed : j < ret_index /\ Violation(j) = Violation(ret_index)
    /\ \E k \in Indices(num_x) :
          IsFixed(k) /\ Violation(k) < Violation(ret_index)

\* the place of index i in the circular order that starts at s
CircularRank(i, s) == (i - s + num_x) % num_x

\* C5: random returns the first unfixed index in the circular order s, s+1,
\* ..., n-1, 0, ..., s-1, where s is the generator's first draw modulo n; it
\* panics exactly when no index is unfixed.  (The draw is a fixed value of the
\* seed and nodes_visited, so equal inputs give equal indices.)
C5_RandomCircularFirst ==
    called = "random"
        => LET s == prng_draw % num_x
           IN  /\ (outcome = "panicked") <=> (Unfixed = {})
               /\ Unfixed # {}
                    => /\ ret_index \in Unfixed
                       /\ \A j \in Indices(num_x) :
                             CircularRank(j, s) < CircularRank(ret_index, s)
                                 => IsFixed(j)

\* C5, its case: the draw exceeds n, the scan of [s, n) finds every index
\* fixed, and the index returned comes from the wrapped scan of [0, s).
C5_Witness ==
    /\ called = "random"
    /\ outcome = "returned"
    /\ prng_draw >= num_x
    /\ ret_index < prng_draw % num_x
    /\ ret_index > 0

\* min(zero_delta[i], one_delta[i]) of compute_strong_branch on the node
MinGain(i) ==
    LET flips == compute_strong_branch(num_x, q, c, QuboBBNode)
    IN  Min(flips.zero_result[i], flips.one_result[i])

\* max(zero_delta[i], one_delta[i]) of compute_strong_branch on the node
MaxGain(i) ==
    LET flips == compute_strong_branch(num_x, q, c, QuboBBNode)
    IN  Max(flips.zero_result[i], flips.one_result[i])

\* C6: worst_approximation, on a node with an unfixed index, returns the
\* unfixed index that maximizes min(zero_delta[i], one_delta[i]), and of the
\* indices that attain the maximum the smallest.
C6_WorstFirstMaximum ==
    (called = "worst_approximation" /\ Unfixed # {})
        => /\ outcome = "returned"
           /\ ret_index \in Unfixed
           /\ \A j \in Unfixed : MinGain(j) <= MinGain(ret_index)
           /\ \A j \in Unfixed :
                 MinGain(j) = MinGain(ret_index) => ret_index <= j

\* C6, its case: both indices are unfixed and tie on the maximum, a nonzero
\* one, and the earlier index is returned.
C6_Witness ==
    /\ called = "worst_approximation"
    /\ outcome = "returned"
    /\ ret_index = 0
    /\ Unfixed = {0, 1}
    /\ MinGain(0) = MinGain(1)
    /\ MinGain(0) # 0

BaseX == BaseSolution(num_x, QuboBBNode)

\* x with coordinate i moved to v
Moved(x, i, v) == [x EXCEPT ![i] = v]

\* x^T Q x, in units of 1/Scale^2
Quadratic(x) ==
    SumTo([i \in Indices(num_x) |->
              SumTo([j \in Indices(num_x) |-> x[i] * q[i][j] * x[j]], num_x)],
          num_x)

\* c^T x, in units of 1/Scale
Linear(x) == SumTo([i \in Indices(num_x) |-> c[i] * x[i]], num_x)

\* f(x) = x^T Q x + c^T x, in units of 1/(2*Scale^2)
Objective(x) == 2 * Quadratic(x) + 2 * Scale * Linear(x)

\* h(x) = 0.5 * x^T Q x + c^T x, in units of 1/(2*Scale^2)
HalvedObjective(x) == Quadratic(x) + 2 * Scale * Linear(x)

\* C8 (as claimed): zero_delta[i] and one_delta[i] are the exact changes
\* f(x + d*e_i) - f(x) of f(x) = x^T Q x + c^T x when coordinate i of the base
\* vector moves to 0 and to 1.
C8_ExactChangeOfFullObjective ==
    called = "compute_strong_branch"
        => \A i \in Indices(num_x) :
              /\ ret_zero[i] = Objective(Moved(BaseX, i, 0)) - Objective(BaseX)
              /\ ret_one[i] = Objective(Moved(BaseX, i, Scale)) - Objective(BaseX)

\* C8 (amended): zero_delta[i] and one_delta[i] are the exact changes
\* h(x + d*e_i) - h(x) of h(x) = 0.5 * x^T Q x + c^T x, the objective in the
\* form the relaxation solver takes q and c in, when coordinate i of the base
\* vector moves to 0 and to 1; q need not be symmetric.
C8_ExactChangeOfHalvedObjective ==
    called = "compute_strong_branch"
        => \A i \in Indices(num_x) :
              /\ ret_zero[i] =
                    HalvedObjective(Moved(BaseX, i, 0)) - HalvedObjective(BaseX)
              /\ ret_one[i] =
                    HalvedObjective(Moved(BaseX, i, Scale)) - HalvedObjective(BaseX)

\* C8, its case: q is not symmetric, c is not zero, index 0 is fixed at a value
\* its solution entry differs from, and both deltas of index 1 are nonzero.
C8_Witness ==
    /\ called = "compute_strong_branch"
    /\ num_x = 2
    /\ q[0][1] # q[1][0]
    /\ q[1][1] # 0
    /\ c[1] # 0
    /\ IsFixed(0)
    /\ fixed_variables[0] # solution[0]
    /\ ret_zero[1] # 0
    /\ ret_one[1] # 0

\* every off-diagonal entry of q is zero, and c is zero
DiagonalNoLinear ==
    /\ \A i, j \in Indices(num_x) : i # j => q[i][j] = 0
    /\ \A i \in Indices(num_x) : c[i] = 0

\* C9 (as claimed): for a diagonal q and c = 0,
\* zero_delta[i] = 0.5 * x[i]^2 * q_jj[i].
C9_DiagonalPositiveHalfSquare ==
    (called = "compute_strong_branch" /\ DiagonalNoLinear)
        => \A i \in Indices(num_x) : ret_zero[i] = BaseX[i] * BaseX[i] * q[i][i]

\* C9 (amended): for a diagonal q and c = 0,
\* zero_delta[i] = -0.5 * x[i]^2 * q_jj[i].
C9_DiagonalNegativeHalfSquare ==
    (called = "compute_strong_branch" /\ DiagonalNoLinear)
        => \A i \in Indices(num_x) :
              ret_zero[i] = -(BaseX[i] * BaseX[i] * q[i][i])

\* C9, its case: a diagonal q, c = 0, and an index of nonzero base value and
\* nonzero diagonal entry, fixed, next to an unfixed one.
C9_Witness ==
    /\ called = "compute_strong_branch"
    /\ DiagonalNoLinear
    /\ num_x = 2
    /\ IsFixed(0) /\ BaseX[0] # 0 /\ q[0][0] # 0
    /\ ~IsFixed(1) /\ BaseX[1] # 0 /\ q[1][1] # 0

\* C10: generate_random_binary_point returns a vector of length n over {0, 1};
\* it takes one unit-interval draw per entry, in index order, entry i being 1
\* exactly when the i-th draw is less than sparsity; so it is all ones for
\* sparsity 1.0 and all zeros for sparsity 0.0.
C10_RandomBinaryPoint ==
    [][called' = "generate_random_binary_point"
        => /\ Len(ret_points') = 1
           /\ DOMAIN ret_points'[1] = Indices(num_x)
           /\ \A i \in Indices(num_x) :
                 /\ ret_points'[1][i] \in {0, 1}
                 /\ ret_points'[1][i] = 1
                       <=> prng_stream[prng_pos + i + 1] < sparsity
                 /\ sparsity = Scale => ret_points'[1][i] = 1
                 /\ sparsity = 0 => ret_points'[1][i] = 0
           /\ prng_pos' = prng_pos + num_x]_vars

\* C10, its case: a second call, at sparsity 0.5, has left a point with a 0
\* entry and a 1 entry.
C10_Witness ==
    /\ called = "generate_random_binary_point"
    /\ sparsity = Scale \div 2
    /\ prng_pos = 2 * num_x
    /\ \E i, j \in Indices(num_x) :
          ret_points[1][i] = 0 /\ ret_points[1][j] = 1

====
